---- MODULE Spec2Model ----
(***************************************************************************)
(* A model of github-status-embed-for-discord: the conversion of the raw   *)
(* string arguments into typed dataclasses (types.py), the rendering of    *)
(* the webhook payload and its delivery (webhook.py), the masking log      *)
(* formatter (log.py) and the entry point (__main__.py).                   *)
(*                                                                         *)
(* Python strings are sequences of one-character strings.  Inside emitted  *)
(* texts a fixed literal of the source is written as one element (an       *)
(* "atom") wherever only its presence, not its length, matters.            *)
(*                                                                         *)
(* The interpreter modelled is CPython 3.9, the only release on which      *)
(* both `collections.Sized` (types.py:75) and `str.removeprefix`           *)
(* (types.py:269) exist.                                                   *)
(***************************************************************************)
EXTENDS Integers, Sequences, FiniteSets, TLC

VARIABLES
    pc,             \* position of the run
    arguments,      \* the mapping of raw arguments (keys present |-> value)
    debug,          \* __main__.py:51
    dry_run,        \* __main__.py:52
    payload_in,     \* the parsed form of the `pull_request_payload` argument
    masked_values,  \* MaskingFormatter._masked_values
    workflow,       \* result of Workflow.from_arguments
    webhook,        \* result of Webhook.from_arguments
    pull_request,   \* result of PullRequest.from_arguments / from_payload
    payload,        \* the rendered WebhookPayload
    posts,          \* number of HTTP POST requests issued
    response,       \* outcome of requests.post
    output,         \* every text the process has emitted (stdout and stderr)
    success,        \* return value of send_webhook
    exit_code,      \* exit status of the process
    cls,            \* the dataclass under conversion (function-level runs)
    result,         \* its from_arguments result (function-level runs)
    argv            \* the raw mapping as it was handed in (never changed)

vars == <<pc, arguments, debug, dry_run, payload_in, masked_values, workflow,
          webhook, pull_request, payload, posts, response, output, success,
          exit_code, cls, result, argv>>

----------------------------------------------------------------------------
(* Python values.  A raw argument is a str; a JSON payload may also put an *)
(* int or None into the mapping (types.py:234-237).                        *)

Str(s) == [t |-> "str", n |-> 0, s |-> s]
IntV(k) == [t |-> "int", n |-> k, s |-> <<>>]
EnumV(name) == [t |-> "enum", n |-> 0, s |-> name]
PyNone == [t |-> "none", n |-> 0, s |-> <<>>]

Rep(c, k) == [i \in 1..k |-> c]

DigitChar == <<"0", "1", "2", "3", "4", "5", "6", "7", "8", "9">>

IsDigit(c) == \E i \in 1..10 : DigitChar[i] = c

DigitValue(c) == (CHOOSE i \in 1..10 : DigitChar[i] = c) - 1

RECURSIVE DigitsNat(_)
DigitsNat(k) ==
    IF k < 10 THEN <<DigitChar[k + 1]>>
    ELSE DigitsNat(k \div 10) \o <<DigitChar[(k % 10) + 1]>>

(* str(int) *)
Digits(k) == IF k < 0 THEN <<"-">> \o DigitsNat(-k) ELSE DigitsNat(k)

(* str.strip() of the blanks int() ignores *)
RECURSIVE LStrip(_)
LStrip(s) == IF s # <<>> /\ Head(s) = " " THEN LStrip(Tail(s)) ELSE s

RECURSIVE RStrip(_)
RStrip(s) ==
    IF s # <<>> /\ s[Len(s)] = " " THEN RStrip(SubSeq(s, 1, Len(s) - 1)) ELSE s

Strip(s) == RStrip(LStrip(s))

HasSign(s) == s # <<>> /\ Head(s) \in {"+", "-"}

Unsigned(s) == IF HasSign(s) THEN Tail(s) ELSE s

(* the digit part of an int literal: digits, single underscores between *)
IsDigitBody(b) ==
    /\ b # <<>>
    /\ \A i \in 1..Len(b) : IsDigit(b[i]) \/ b[i] = "_"
    /\ IsDigit(b[1]) /\ IsDigit(b[Len(b)])
    /\ \A i \in 1..(Len(b) - 1) : ~(b[i] = "_" /\ b[i + 1] = "_")

(* whether int(s) succeeds on a str *)
IsIntLiteral(s) == IsDigitBody(Unsigned(Strip(s)))

RECURSIVE BodyValue(_, _)
BodyValue(b, acc) ==
    IF b = <<>> THEN acc
    ELSE IF Head(b) = "_" THEN BodyValue(Tail(b), acc)
    ELSE BodyValue(Tail(b), 10 * acc + DigitValue(Head(b)))

(* int(s) for a str on which it succeeds *)
ParseInt(s) ==
    LET t == Strip(s)
        v == BodyValue(Unsigned(t), 0)
    IN IF HasSign(t) /\ Head(t) = "-" THEN -v ELSE v

Lower == <<"a", "b", "c", "d", "e", "f", "g", "h", "i", "j", "k", "l", "m",
           "n", "o", "p", "q", "r", "s", "t", "u", "v", "w", "x", "y", "z">>

Upper == <<"A", "B", "C", "D", "E", "F", "G", "H", "I", "J", "K", "L", "M",
           "N", "O", "P", "Q", "R", "S", "T", "U", "V", "W", "X", "Y", "Z">>

UpperChar(c) ==
    IF \E i \in 1..26 : Lower[i] = c
    THEN Upper[CHOOSE i \in 1..26 : Lower[i] = c]
    ELSE c

(* str.upper() *)
upper(s) == [i \in 1..Len(s) |-> UpperChar(s[i])]

(* the member names of the WorkflowStatus enum *)
WorkflowStatus ==
    { <<"S", "U", "C", "C", "E", "S", "S">>,
      <<"F", "A", "I", "L", "U", "R", "E">>,
      <<"C", "A", "N", "C", "E", "L", "L", "E", "D">> }

(* whether t occurs in s as a contiguous run of elements *)
Contains(s, t) ==
    \E i \in 1..(Len(s) - Len(t) + 1) : SubSeq(s, i, i + Len(t) - 1) = t

StartsWith(s, p) == Len(p) <= Len(s) /\ SubSeq(s, 1, Len(p)) = p

EndsWith(s, p) ==
    Len(p) <= Len(s) /\ SubSeq(s, Len(s) - Len(p) + 1, Len(s)) = p

(* str.removeprefix *)
removeprefix(s, p) ==
    IF StartsWith(s, p) THEN SubSeq(s, Len(p) + 1, Len(s)) ELSE s

(* str.partition(sep)[0] and [2] for a one-character separator *)
RECURSIVE PartitionHead(_, _)
PartitionHead(s, sep) ==
    IF s = <<>> \/ Head(s) = sep THEN <<>>
    ELSE <<Head(s)>> \o PartitionHead(Tail(s), sep)

PartitionTail(s, sep) ==
    LET h == PartitionHead(s, sep)
    IN IF Len(h) = Len(s) THEN <<>> ELSE SubSeq(s, Len(h) + 2, Len(s))

----------------------------------------------------------------------------
(* The dataclasses: their fields in declaration order, with their types.   *)

WorkflowFields ==
    << <<"workflow_name", "str">>, <<"run_id", "int">>,
       <<"run_number", "int">>, <<"status", "enum">>,
       <<"repository", "str">>, <<"actor", "str">>,
       <<"ref", "str">>, <<"sha", "str">> >>

WebhookFields == << <<"webhook_id", "int">>, <<"webhook_token", "str">> >>

PullRequestFields ==
    << <<"pr_author_login", "str">>, <<"pr_number", "int">>,
       <<"pr_title", "str">>, <<"pr_source", "str">> >>

Classes == {"Workflow", "Webhook", "PullRequest"}

(* typing.get_type_hints(cls) *)
TypeHints(c) ==
    CASE c = "Workflow" -> WorkflowFields
      [] c = "Webhook" -> WebhookFields
      [] c = "PullRequest" -> PullRequestFields

FieldNames(c) == {TypeHints(c)[i][1] : i \in 1..Len(TypeHints(c))}

(* cls.optional, set by __init_subclass__ *)
Optional(c) == c = "PullRequest"

(* arguments.get(attr, "") == "" *)
IsBlank(args, attr) ==
    attr \notin DOMAIN args \/ (args[attr].t = "str" /\ args[attr].s = <<>>)

(* dict.pop(attr, None): the mapping without the key *)
Popped(args, attr) == [k \in (DOMAIN args) \ {attr} |-> args[k]]

(* f"{value}" *)
Show(v) ==
    CASE v.t = "str" -> v.s
      [] v.t = "int" -> Digits(v.n)
      [] v.t = "enum" -> v.s
      [] v.t = "none" -> <<"None">>

(* Convert taking 0 for text that is no integer *)
Convert_lenient_int(type, v) ==
    CASE type = "enum" ->
            IF upper(v.s) \in WorkflowStatus
            THEN [ok |-> TRUE, v |-> EnumV(upper(v.s))]
            ELSE [ok |-> FALSE, v |-> v]
      [] type = "int" ->
            IF v.t = "int" THEN [ok |-> TRUE, v |-> v]
            ELSE IF IsIntLiteral(v.s)
            THEN [ok |-> TRUE, v |-> IntV(ParseInt(v.s))]
            ELSE [ok |-> TRUE, v |-> IntV(0)]
      [] type = "str" ->
            LET sv == Str(Show(v))
            IN [ok |-> Len(sv.s) # 0, v |-> sv]

(* Convert without the check for an empty sized value *)
Convert_keep_empty(type, v) ==
    CASE type = "enum" ->
            IF upper(v.s) \in WorkflowStatus
            THEN [ok |-> TRUE, v |-> EnumV(upper(v.s))]
            ELSE [ok |-> FALSE, v |-> v]
      [] type = "int" ->
            IF v.t = "int" THEN [ok |-> TRUE, v |-> v]
            ELSE IF IsIntLiteral(v.s)
            THEN [ok |-> TRUE, v |-> IntV(ParseInt(v.s))]
            ELSE [ok |-> FALSE, v |-> v]
      [] type = "str" -> [ok |-> TRUE, v |-> Str(Show(v))]

(* The try block of from_arguments: the converted value, or the ValueError *)
(* or KeyError that makes the field invalid.                               *)
Convert(type, v) ==
    CASE type = "enum" ->
            IF upper(v.s) \in WorkflowStatus
            THEN [ok |-> TRUE, v |-> EnumV(upper(v.s))]
            ELSE [ok |-> FALSE, v |-> v]
      [] type = "int" ->
            IF v.t = "int" THEN [ok |-> TRUE, v |-> v]
            ELSE IF IsIntLiteral(v.s)
            THEN [ok |-> TRUE, v |-> IntV(ParseInt(v.s))]
            ELSE [ok |-> FALSE, v |-> v]
      [] type = "str" ->
            LET sv == Str(Show(v))
            IN [ok |-> Len(sv.s) # 0, v |-> sv]

NoKwargs == [k \in {} |-> PyNone]

Outcome(kind, field, raw, kwargs, rest) ==
    [kind |-> kind, field |-> field, raw |-> raw, kwargs |-> kwargs,
     rest |-> rest]

(* The loop of from_arguments over the declared fields from position i on. *)
RECURSIVE ConvertFrom(_, _, _, _)
ConvertFrom(hints, i, args, kwargs) ==
    IF i > Len(hints) THEN Outcome("value", "", <<>>, kwargs, args)
    ELSE
        LET attribute == hints[i][1]
            type == hints[i][2]
            rest == Popped(args, attribute)
        IN IF attribute \notin DOMAIN args \/ args[attribute].t = "none"
           THEN Outcome("MissingArgument", attribute, <<>>, NoKwargs, rest)
           ELSE
               LET c == Convert(type, args[attribute])
               IN IF ~c.ok
                  THEN Outcome("InvalidArgument", attribute, Show(c.v),
                               NoKwargs, rest)
                  ELSE ConvertFrom(hints, i + 1, rest,
                                   [k \in (DOMAIN kwargs) \cup {attribute} |->
                                       IF k = attribute THEN c.v ELSE kwargs[k]])

(* ReturnsNone with any() in place of all() *)
ReturnsNone_any(c, args) ==
    Optional(c) /\ \E attr \in FieldNames(c) : IsBlank(args, attr)

(* The early return of an optional dataclass none of whose values is given *)
ReturnsNone(c, args) ==
    Optional(c) /\ \A attr \in FieldNames(c) : IsBlank(args, attr)

(* TypedDataclass.from_arguments *)
from_arguments(c, args) ==
    IF ReturnsNone(c, args)
    THEN Outcome("none", "", <<>>, NoKwargs, args)
    ELSE ConvertFrom(TypeHints(c), 1, args, NoKwargs)

----------------------------------------------------------------------------
(* log.py: the masking formatter.                                          *)

(* str.replace("", new): `new` before every character and at the end *)
Interleave(s, new) ==
    LET m == Len(new)
    IN [k \in 1..((Len(s) + 1) * m + Len(s)) |->
           IF (k - 1) % (m + 1) < m THEN new[((k - 1) % (m + 1)) + 1]
           ELSE s[((k - 1) \div (m + 1)) + 1]]

(* the first index at which `old` occurs in s *)
Find(s, old) ==
    CHOOSE i \in 1..(Len(s) - Len(old) + 1) :
        /\ SubSeq(s, i, i + Len(old) - 1) = old
        /\ \A j \in 1..(i - 1) : SubSeq(s, j, j + Len(old) - 1) # old

(* str.replace(old, new): every non-overlapping occurrence, left to right; *)
(* an empty `old` matches before every character and at the end.           *)
RECURSIVE replace(_, _, _)
replace(s, old, new) ==
    IF old = <<>> THEN Interleave(s, new)
    ELSE IF ~Contains(s, old) THEN s
    ELSE SubSeq(s, 1, Find(s, old) - 1) \o new
             \o replace(SubSeq(s, Find(s, old) + Len(old), Len(s)), old, new)

RECURSIVE MaskAll(_, _)
MaskAll(message, masked) ==
    IF masked = <<>> THEN message
    ELSE MaskAll(replace(message, Head(masked), <<"<masked value>">>),
                 Tail(masked))

(* MaskingFormatter.format with the format '::%(levelname)s::%(message)s' *)
format(levelname, msg, masked) ==
    MaskAll(<<"::", levelname, "::">> \o msg, masked)

(* root.setLevel(level): DEBUG when debug was asked for, else WARNING *)
IsEnabledFor(levelname, dbg) == levelname = "warning" \/ dbg

(* one logging call, through the root handler *)
Log(out, levelname, msg, dbg, masked) ==
    IF IsEnabledFor(levelname, dbg)
    THEN Append(out, format(levelname, msg, masked))
    ELSE out

(* several logging calls in order: records are <<levelname, msg>> *)
RECURSIVE LogAll(_, _, _, _)
LogAll(out, records, dbg, masked) ==
    IF records = <<>> THEN out
    ELSE LogAll(Log(out, Head(records)[1], Head(records)[2], dbg, masked),
                Tail(records), dbg, masked)

(* The interpreter's report of an uncaught exception on stderr: it does    *)
(* not pass through the logging handler.                                   *)
Traceback(exc, msg) ==
    <<"Traceback (most recent call last):", exc, ": ">> \o msg

(* MissingArgument.__init__ *)
MissingArgumentMsg(arg_name) ==
    <<"missing non-null value for argument ", arg_name,
      " Hint: incorrect context paths like github.non_existent return null silently.">>

(* the message of InvalidArgument, types.py:78 *)
InvalidArgumentMsg(attribute, raw) ==
    <<"invalid value for ", attribute, ": ">> \o raw

----------------------------------------------------------------------------
(* types.py: the properties of the dataclasses.                            *)

MIN_EMBED_FIELD_LENGTH == 20

FIELD_CHARACTER_BUDGET == 60

StatusInfo(name) ==
    CASE name = <<"S", "U", "C", "C", "E", "S", "S">> ->
            [verb |-> "succeeded", adjective |-> "Successful",
             color |-> 38912]
      [] name = <<"F", "A", "I", "L", "U", "R", "E">> ->
            [verb |-> "failed", adjective |-> "Failed", color |-> 16525609]
      [] name = <<"C", "A", "N", "C", "E", "L", "L", "E", "D">> ->
            [verb |-> "was cancelled", adjective |-> "Cancelled",
             color |-> 6702148]

Workflow_url(w) ==
    <<"https://github.com/">> \o w.repository.s \o <<"/actions/runs/">>
        \o Digits(w.run_id.n)

Workflow_actor_url(w) == <<"https://github.com/">> \o w.actor.s

Workflow_short_sha(w) ==
    SubSeq(w.sha.s, 1, IF Len(w.sha.s) < 7 THEN Len(w.sha.s) ELSE 7)

Workflow_commit_url(w) ==
    <<"https://github.com/">> \o w.repository.s \o <<"/commit/">> \o w.sha.s

Workflow_repository_owner(w) == PartitionHead(w.repository.s, "/")

Workflow_repository_name(w) == PartitionTail(w.repository.s, "/")

Webhook_url(h) ==
    <<"https://canary.discord.com", "/api/webhooks/">> \o Digits(h.webhook_id.n)
        \o <<"/">> \o h.webhook_token.s

PullRequest_author_url(p) == <<"https://github.com/">> \o p.pr_author_login.s

(* shortened_source cutting at `length` instead of `length - 3` *)
shortened_source_cut_late(p, length, owner) ==
    LET stripped == IF owner # <<>>
                    THEN removeprefix(p.pr_source.s, owner \o <<":">>)
                    ELSE p.pr_source.s
        len == IF length >= MIN_EMBED_FIELD_LENGTH THEN length
               ELSE MIN_EMBED_FIELD_LENGTH
    IN IF Len(stripped) > len
       THEN SubSeq(stripped, 1, len) \o <<".", ".", ".">>
       ELSE stripped

(* a shortened_source that cuts the label before it strips the prefix *)
shortened_source_strip_late(p, length, owner) ==
    LET len == IF length >= MIN_EMBED_FIELD_LENGTH THEN length
               ELSE MIN_EMBED_FIELD_LENGTH
        cut == IF Len(p.pr_source.s) > len
               THEN SubSeq(p.pr_source.s, 1, len - 3) \o <<".", ".", ".">>
               ELSE p.pr_source.s
    IN IF owner # <<>> THEN removeprefix(cut, owner \o <<":">>) ELSE cut

(* PullRequest.shortened_source *)
shortened_source(p, length, owner) ==
    LET stripped == IF owner # <<>>
                    THEN removeprefix(p.pr_source.s, owner \o <<":">>)
                    ELSE p.pr_source.s
        len == IF length >= MIN_EMBED_FIELD_LENGTH THEN length
               ELSE MIN_EMBED_FIELD_LENGTH
    IN IF Len(stripped) > len
       THEN SubSeq(stripped, 1, len - 3) \o <<".", ".", ".">>
       ELSE stripped

----------------------------------------------------------------------------
(* webhook.py: the rendering of the payload.                               *)

EmbedField(name, value) == [name |-> name, value |-> value, inline |-> TRUE]

EMBED_DESCRIPTION(w) ==
    <<"GitHub Actions run ", "[">> \o Digits(w.run_id.n) \o <<"]", "(">>
        \o Workflow_url(w) \o <<")", " ", StatusInfo(w.status.s).verb, ".">>

PULL_REQUEST_URL(w, p) ==
    <<"https://github.com/">> \o w.repository.s \o <<"/pull/">>
        \o Digits(p.pr_number.n)

WebhookPayload(embed) ==
    [username |-> "GitHub Actions",
     avatar_url |-> "https://raw.githubusercontent.com/SebastiaanZ/github-status-embed-for-discord/main/github_actions_avatar.png",
     embeds |-> <<embed>>]

(* f"{workflow.name} #{workflow.number}" *)
WorkflowNumber(w) == w.workflow_name.s \o <<" ", "#">> \o Digits(w.run_number.n)

(* the character budget of the Source Branch field, webhook.py:28-30 *)
CharactersLeft(w, p) ==
    FIELD_CHARACTER_BUDGET - Len(p.pr_author_login.s) - Len(WorkflowNumber(w))

get_payload_pull_request(w, p) ==
    LET author == p.pr_author_login.s
        fields ==
            << EmbedField("PR Author",
                          <<"[">> \o author \o <<"]", "(">>
                              \o PullRequest_author_url(p) \o <<")">>),
               EmbedField("Workflow Run",
                          <<"[">> \o WorkflowNumber(w) \o <<"]", "(">>
                              \o Workflow_url(w) \o <<")">>),
               EmbedField("Source Branch",
                          shortened_source(p, CharactersLeft(w, p),
                                           Workflow_repository_owner(w))) >>
    IN WebhookPayload(
           [title |-> <<"[">> \o w.repository.s
                          \o <<"]", " Checks ", StatusInfo(w.status.s).adjective,
                               " on PR: ", "#">>
                          \o Digits(p.pr_number.n) \o <<" ">> \o p.pr_title.s,
            description |-> EMBED_DESCRIPTION(w),
            url |-> PULL_REQUEST_URL(w, p),
            color |-> StatusInfo(w.status.s).color,
            fields |-> fields])

get_payload(w) ==
    LET embed_fields ==
            << EmbedField("Actor",
                          <<"[">> \o w.actor.s \o <<"]", "(">>
                              \o Workflow_actor_url(w) \o <<")">>),
               EmbedField("Workflow Run",
                          <<"[">> \o WorkflowNumber(w) \o <<"]", "(">>
                              \o Workflow_url(w) \o <<")">>),
               EmbedField("Commit",
                          <<"[">> \o Workflow_short_sha(w) \o <<"]", "(">>
                              \o Workflow_commit_url(w) \o <<")">>) >>
    IN WebhookPayload(
           [title |-> <<"[">> \o w.repository.s
                          \o <<"]", " Workflow ", StatusInfo(w.status.s).adjective>>,
            description |-> EMBED_DESCRIPTION(w),
            url |-> Workflow_url(w),
            color |-> StatusInfo(w.status.s).color,
            fields |-> embed_fields])

(* a send_webhook that renders the generic document whatever the context *)
RenderedPayload_always_generic(wf, pr) == get_payload(wf.kwargs)

(* the choice of the renderer in send_webhook, webhook.py:119-124 *)
RenderedPayload(wf, pr) ==
    IF pr.kind = "none" THEN get_payload(wf.kwargs)
    ELSE get_payload_pull_request(wf.kwargs, pr.kwargs)

(* json.dumps(payload, indent=4), as the texts it holds in order *)
Dump(pl) ==
    LET e == pl.embeds[1]
    IN <<pl.username, pl.avatar_url>> \o e.title \o e.description \o e.url
           \o Digits(e.color)
           \o <<e.fields[1].name>> \o e.fields[1].value
           \o <<e.fields[2].name>> \o e.fields[2].value
           \o <<e.fields[3].name>> \o e.fields[3].value

NoPayload == [username |-> "", avatar_url |-> "", embeds |-> <<>>]

----------------------------------------------------------------------------
(* types.py: PullRequest.from_payload.  json.loads is not modelled: the    *)
(* `pull_request_payload` argument comes with its parsed form, payload_in: *)
(*   decodable  whether json.loads succeeds                                *)
(*   list       whether the document is a list (its first item is used)    *)
(*   shape      "empty": nothing or a falsy value is left;                 *)
(*              "object": a dict, with the four values read from it        *)
(*              ("" for a missing key, None for null);                     *)
(*              "other": a truthy value without `.get` (or whose `user` or *)
(*              `head` has none): an AttributeError                        *)

ParseLog(pin) ==
    << <<"debug", <<"Attempting to parse PR Payload JSON: ", "'">> \o pin.raw
                      \o <<"'", ".">> >> >>
    \o (IF pin.decodable
        THEN << <<"debug", <<"Successfully parsed parsed payload">> >> >>
        ELSE << <<"debug", <<"Failed to parse JSON, dropping down to empty payload">> >> >>)
    \o (IF pin.decodable /\ pin.list
        THEN << <<"debug", <<"The payload contained a list, extracting first PR.">> >> >>
        ELSE << >>)

PayloadShape(pin) == IF pin.decodable THEN pin.shape ELSE "empty"

WithPayload(args, pin) ==
    [k \in (DOMAIN args) \cup
           {"pr_author_login", "pr_number", "pr_title", "pr_source"} |->
        CASE k = "pr_author_login" -> pin.login
          [] k = "pr_number" -> pin.number
          [] k = "pr_title" -> pin.title
          [] k = "pr_source" -> pin.label
          [] OTHER -> args[k]]

(* the records logged and the outcome of PullRequest.from_payload *)
from_payload(args, pin) ==
    LET popped == Popped(args, "pull_request_payload")
    IN CASE PayloadShape(pin) = "empty" ->
               [records |-> ParseLog(pin) \o
                    << <<"warning", <<"PR payload could not be parsed, attempting regular pr arguments.">> >> >>,
                out |-> from_arguments("PullRequest", popped)]
         [] PayloadShape(pin) = "other" ->
               [records |-> ParseLog(pin),
                out |-> Outcome("AttributeError", "", <<>>, NoKwargs, popped)]
         [] PayloadShape(pin) = "object" ->
               [records |-> ParseLog(pin),
                out |-> from_arguments("PullRequest", WithPayload(popped, pin))]

----------------------------------------------------------------------------
(* The third-party HTTP client.                                            *)

(* requests.Response.ok: raise_for_status() raises for 400 <= status < 600 *)
Response_ok(status_code) == ~(400 <= status_code /\ status_code < 600)

(* the path of a URL, as urllib3 logs and reports it *)
UrlPath(url) == Tail(url)

(* The messages of the requests.exceptions.ConnectionError that            *)
(* requests.post raises when the request cannot be sent: urllib3's         *)
(* MaxRetryError names the path of the URL, a dropped connection does not. *)
NetworkErrorMsg(failure, url) ==
    IF failure = "MaxRetryError"
    THEN <<"HTTPSConnectionPool(host='canary.discord.com', port=443): Max retries exceeded with url: ">>
             \o UrlPath(url)
    ELSE <<"('Connection aborted.', RemoteDisconnected('Remote end closed connection without response'))">>

----------------------------------------------------------------------------
(* The inputs.                                                             *)

S_success == <<"s", "u", "c", "c", "e", "s", "s">>
S_Failure == <<"F", "a", "i", "l", "u", "r", "e">>
S_CANCELLED == <<"C", "A", "N", "C", "E", "L", "L", "E", "D">>
S_succes == <<"s", "u", "c", "c", "e", "s">>
S_false == <<"f", "a", "l", "s", "e">>
S_true == <<"t", "r", "u", "e">>
S_repo == <<"o", "/", "r">>
S_sha == <<"a", "b", "c", "d", "e", "f", "0", "1", "2", "3">>
S_token == <<"t", "k">>
S_label == <<"o", ":", "d", "e", "v">>
S_login == <<"b", "o", "b">>

(* the values of `debug` and `dry_run` that switch the flag off *)
Falsy == {<<>>, <<"0">>, S_false}

PayloadIn(raw, decodable, list, shape, login, number, title, label) ==
    [raw |-> raw, decodable |-> decodable, list |-> list, shape |-> shape,
     login |-> login, number |-> number, title |-> title, label |-> label]

NoPayloadIn ==
    PayloadIn(<<>>, FALSE, FALSE, "empty", Str(<<>>), Str(<<>>), Str(<<>>),
              Str(<<>>))

PayloadInputs ==
    { NoPayloadIn,
      PayloadIn(<<"{", "oops">>, FALSE, FALSE, "empty",
                Str(<<>>), Str(<<>>), Str(<<>>), Str(<<>>)),
      PayloadIn(<<"[", "]">>, TRUE, TRUE, "empty",
                Str(<<>>), Str(<<>>), Str(<<>>), Str(<<>>)),
      PayloadIn(<<"7">>, TRUE, FALSE, "other",
                Str(<<>>), Str(<<>>), Str(<<>>), Str(<<>>)),
      PayloadIn(<<"{", "pr", "}">>, TRUE, FALSE, "object",
                Str(S_login), IntV(5), Str(<<"t">>), Str(S_label)),
      PayloadIn(<<"[", "{", "pr", "}", "]">>, TRUE, TRUE, "object",
                Str(S_login), Str(<<>>), Str(<<"t">>), Str(S_label)),
      PayloadIn(<<"{", "pr", "null", "}">>, TRUE, FALSE, "object",
                Str(S_login), IntV(5), PyNone, Str(S_label)),
      PayloadIn(<<"{", "x", "}">>, TRUE, FALSE, "object",
                Str(<<>>), Str(<<>>), Str(<<>>), Str(<<>>)) }

RunIdInputs == {<<"1", "2">>, <<>>, <<"x", "1">>}
StatusInputs == {S_success, S_Failure, S_CANCELLED, S_succes}
WebhookIdInputs == {<<"7">>, <<"a">>}
TokenInputs == {S_token, <<>>}
(* pr_author_login, pr_number, pr_title, pr_source *)
PrInputs ==
    { <<<<>>, <<>>, <<>>, <<>>>>,
      <<S_login, <<"5">>, <<"t">>, S_label>>,
      <<S_login, <<"x">>, <<"t">>, S_label>>,
      <<S_login, <<"5">>, <<>>, S_label>>,
      <<<<>>, <<"5">>, <<>>, <<>>>> }
DebugInputs == {<<>>, <<"1">>}
DryRunInputs == {S_false, S_true}

(* HTTP statuses the endpoint may answer with *)
StatusCodes == {101, 200, 204, 299, 302, 304, 400, 404, 429, 500, 599}

NetworkFailures == {"MaxRetryError", "ConnectionAborted"}

Unset == Outcome("unset", "", <<>>, NoKwargs, NoKwargs)

NoResponse == [kind |-> "none", status_code |-> 0]

(* the order of the inputs in action.yaml, as argparse keeps it *)
ArgOrder ==
    <<"workflow_name", "run_id", "run_number", "status", "repository",
      "actor", "ref", "sha", "webhook_id", "webhook_token",
      "pr_author_login", "pr_number", "pr_title", "pr_source",
      "pull_request_payload">>

(* "\n".join(f"  {k}={v!r}" for k, v in arguments.items()) *)
RECURSIVE ArgsDump(_, _)
ArgsDump(args, i) ==
    IF i > Len(ArgOrder) THEN <<>>
    ELSE (IF ArgOrder[i] \in DOMAIN args
          THEN <<"  ", ArgOrder[i], "=", "'">> \o Show(args[ArgOrder[i]])
                   \o <<"'">>
          ELSE <<>>)
         \o ArgsDump(args, i + 1)

----------------------------------------------------------------------------
(* __main__.py: one run of the process.                                    *)

CliArguments ==
    { [workflow_name |-> Str(<<"c", "i">>), run_id |-> Str(rid),
       run_number |-> Str(<<"3">>), status |-> Str(st),
       repository |-> Str(S_repo), actor |-> Str(<<"a", "l">>),
       ref |-> Str(<<"m">>), sha |-> Str(S_sha),
       webhook_id |-> Str(wid), webhook_token |-> Str(tok),
       pr_author_login |-> Str(pr[1]), pr_number |-> Str(pr[2]),
       pr_title |-> Str(pr[3]), pr_source |-> Str(pr[4]),
       pull_request_payload |-> Str(pin.raw),
       debug |-> Str(dbg), dry_run |-> Str(dry)] :
         rid \in RunIdInputs, st \in StatusInputs, wid \in WebhookIdInputs,
         tok \in TokenInputs, pr \in PrInputs, pin \in PayloadInputs,
         dbg \in DebugInputs, dry \in DryRunInputs }

(* json.loads of the `pull_request_payload` argument *)
ParsedPayload(raw) == CHOOSE pin \in PayloadInputs : pin.raw = raw

Init ==
    /\ pc = "start"
    /\ arguments \in CliArguments
    /\ argv = arguments
    /\ payload_in = ParsedPayload(arguments.pull_request_payload.s)
    /\ debug = FALSE
    /\ dry_run = FALSE
    /\ masked_values = <<>>
    /\ workflow = Unset
    /\ webhook = Unset
    /\ pull_request = Unset
    /\ payload = NoPayload
    /\ posts = 0
    /\ response = NoResponse
    /\ output = <<>>
    /\ success = FALSE
    /\ exit_code = -1
    /\ cls = "none"
    /\ result = Unset

(* the message of the exception a failed construction raises *)
ErrorMsg(r) ==
    CASE r.kind = "MissingArgument" -> MissingArgumentMsg(r.field)
      [] r.kind = "InvalidArgument" -> InvalidArgumentMsg(r.field, r.raw)
      [] OTHER -> <<"'int' object has no attribute 'get'">>

(* where the run goes after a construction: on, or out with the exception *)
AfterConstruction(r, next) ==
    IF r.kind \in {"value", "none"} THEN next ELSE "done"

(* An exception nobody catches: the traceback on stderr and exit status 1  *)
(* when the run ends here, nothing otherwise.                              *)
Uncaught(r, out, next) ==
    /\ pc' = next
    /\ output' = IF next = "done"
                 THEN Append(out, Traceback(r.kind, ErrorMsg(r))) ELSE out
    /\ exit_code' = IF next = "done" THEN 1 ELSE exit_code

(* __main__.py:50-61 *)
main_setup ==
    /\ pc = "start"
    /\ debug' = (arguments.debug.s \notin Falsy)
    /\ dry_run' = (arguments.dry_run.s \notin Falsy)
    /\ arguments' = Popped(Popped(arguments, "debug"), "dry_run")
    /\ masked_values' = <<arguments.webhook_token.s>>
    /\ output' = Log(output, "debug",
                     <<"Received the following arguments from the CLI:">>
                         \o ArgsDump(arguments', 1),
                     debug', masked_values')
    /\ pc' = "workflow"
    /\ UNCHANGED <<payload_in, workflow, webhook, pull_request, payload, posts,
                   response, success, exit_code, cls, result, argv>>

(* __main__.py:64 *)
main_workflow ==
    /\ pc = "workflow"
    /\ LET r == from_arguments("Workflow", arguments)
       IN /\ workflow' = r
          /\ arguments' = r.rest
          /\ Uncaught(r, output, AfterConstruction(r, "webhook"))
    /\ UNCHANGED <<debug, dry_run, payload_in, masked_values, webhook,
                   pull_request, payload, posts, response, success, cls,
                   result, argv>>

(* __main__.py:65 *)
main_webhook ==
    /\ pc = "webhook"
    /\ LET r == from_arguments("Webhook", arguments)
       IN /\ webhook' = r
          /\ arguments' = r.rest
          /\ Uncaught(r, output, AfterConstruction(r, "pull_request"))
    /\ UNCHANGED <<debug, dry_run, payload_in, masked_values, workflow,
                   pull_request, payload, posts, response, success, cls,
                   result, argv>>

(* __main__.py:66-70 *)
main_pull_request ==
    /\ pc = "pull_request"
    /\ LET use_payload == arguments.pull_request_payload.s # <<>>
           fp == from_payload(arguments, payload_in)
           r == IF use_payload THEN fp.out
                ELSE from_arguments("PullRequest", arguments)
           records ==
               IF use_payload
               THEN << <<"warning", <<"The use of pull_request_payload is deprecated and will be removed in v1.0.0">> >> >>
                        \o fp.records
               ELSE << >>
       IN /\ pull_request' = r
          /\ arguments' = r.rest
          /\ Uncaught(r, LogAll(output, records, debug, masked_values),
                      AfterConstruction(r, "send"))
    /\ UNCHANGED <<debug, dry_run, payload_in, masked_values, workflow,
                   webhook, payload, posts, response, success, cls, result,
                   argv>>

(* AfterRender without the dry-run return *)
AfterRender_always_post(dry) == "post"

(* the dry-run return of send_webhook, webhook.py:128-129 *)
AfterRender(dry) == IF dry THEN "returned" ELSE "post"

(* webhook.py:119-129: send_webhook up to the request *)
send_webhook_render ==
    /\ pc = "send"
    /\ payload' = RenderedPayload(workflow, pull_request)
    /\ output' = LogAll(output,
                        << <<"debug",
                             IF pull_request.kind = "none"
                             THEN <<"Creating payload for non-Pull Request event">>
                             ELSE <<"Creating payload for Pull Request Check">> >>,
                           <<"debug", <<"Generated payload:">> \o Dump(payload')>> >>,
                        debug, masked_values)
    /\ success' = dry_run
    /\ pc' = AfterRender(dry_run)
    /\ UNCHANGED <<arguments, debug, dry_run, payload_in, masked_values,
                   workflow, webhook, pull_request, posts, response,
                   exit_code, cls, result, argv>>

(* AfterResponse posting again when the endpoint refused *)
AfterResponse_retry(ok) == IF ok THEN "returned" ELSE "post"

(* where send_webhook goes once the endpoint has answered *)
AfterResponse(ok) == "returned"

(* what send_webhook prints for the response, webhook.py:134-141 *)
ResponsePrint(status_code) ==
    IF Response_ok(status_code)
    THEN <<"[status: ">> \o Digits(status_code)
             \o <<"]", " Successfully delivered webhook payload!">>
    ELSE <<"::error::", "Discord webhook delivery failed! ", "(status: ">>
             \o Digits(status_code) \o <<"; reason: ", "<reason>", ")">>

(* webhook.py:131-143: the request, and send_webhook's answer to what the  *)
(* endpoint returns; a request that cannot be sent raises out of the run.  *)
send_webhook_post ==
    /\ pc = "post"
    /\ posts' = posts + 1
    /\ \/ \E status_code \in StatusCodes :
            /\ response' = [kind |-> "response", status_code |-> status_code]
            /\ output' =
                   Append(LogAll(output,
                                 << <<"debug", <<"urllib3: ", "POST ">>
                                        \o UrlPath(Webhook_url(webhook.kwargs))
                                        \o <<" ">> \o Digits(status_code)>>,
                                    <<"debug", <<"Response: ", "[">>
                                        \o Digits(status_code)
                                        \o <<"]", " ", "<reason>">> >> >>,
                                 debug, masked_values),
                          ResponsePrint(status_code))
            /\ success' = Response_ok(status_code)
            /\ pc' = AfterResponse(success')
            /\ UNCHANGED exit_code
       \/ \E failure \in NetworkFailures :
            /\ response' = [kind |-> failure, status_code |-> 0]
            /\ output' = Append(output,
                                Traceback("ConnectionError",
                                          NetworkErrorMsg(failure,
                                              Webhook_url(webhook.kwargs))))
            /\ exit_code' = 1
            /\ pc' = "done"
            /\ UNCHANGED success
    /\ UNCHANGED <<arguments, debug, dry_run, payload_in, masked_values,
                   workflow, webhook, pull_request, payload, cls, result,
                   argv>>

(* the exit status for send_webhook's answer *)
ExitStatus(ok) == IF ok THEN 0 ELSE 1

(* __main__.py:75-77, and the end of the script *)
main_exit ==
    /\ pc = "returned"
    /\ output' = IF success THEN output
                 ELSE Log(output, "debug", <<"Exiting with status code 1">>,
                          debug, masked_values)
    /\ exit_code' = ExitStatus(success)
    /\ pc' = "done"
    /\ UNCHANGED <<arguments, debug, dry_run, payload_in, masked_values,
                   workflow, webhook, pull_request, payload, posts, response,
                   success, cls, result, argv>>

Next ==
    \/ main_setup
    \/ main_workflow
    \/ main_webhook
    \/ main_pull_request
    \/ send_webhook_render
    \/ send_webhook_post
    \/ main_exit

Spec == Init /\ [][Next]_vars

----------------------------------------------------------------------------
(* from_arguments on its own: one call on a mapping in which a key may be  *)
(* absent, hold text, or (for the pull-request keys, which from_payload    *)
(* fills from JSON) hold None.                                             *)

Absent == [t |-> "absent", n |-> 0, s |-> <<>>]

(* the mapping that holds the keys of rec that are not marked absent *)
Present(rec) == [k \in {f \in DOMAIN rec : rec[f].t # "absent"} |-> rec[k]]

WorkflowMappings ==
    { Present([workflow_name |-> wn, run_id |-> rid, run_number |-> rnum,
               status |-> st, repository |-> repo, actor |-> act,
               ref |-> rf, sha |-> sh]) :
        wn \in {Absent, Str(<<>>), Str(<<"c", "i">>)},
        rid \in {Absent, Str(<<>>), Str(<<"4", "2">>), Str(<<"4", "x">>)},
        rnum \in {Absent, Str(<<" ", "7">>), Str(<<"1", "_", "0">>),
                  Str(<<"_", "1">>), Str(<<"-", "3">>)},
        st \in {Absent, Str(<<>>), Str(S_success), Str(S_Failure),
                Str(S_succes)},
        repo \in {Absent, Str(<<>>), Str(S_repo)},
        act \in {Absent, Str(<<"a", "l">>)},
        rf \in {Str(<<>>), Str(<<"m">>)},
        sh \in {Absent, Str(<<>>), Str(S_sha)} }

WebhookMappings ==
    { Present([webhook_id |-> wid, webhook_token |-> tok]) :
        wid \in {Absent, Str(<<>>), Str(<<"7">>), Str(<<"a">>),
                 Str(<<"+", "7">>)},
        tok \in {Absent, Str(<<>>), Str(S_token)} }

PullRequestMappings ==
    { Present([pr_author_login |-> login, pr_number |-> num,
               pr_title |-> title, pr_source |-> src]) :
        login \in {Absent, PyNone, Str(<<>>), Str(S_login)},
        num \in {Absent, PyNone, Str(<<>>), Str(<<"5">>), Str(<<"x">>),
                 IntV(5)},
        title \in {Absent, PyNone, Str(<<>>), Str(<<"t">>)},
        src \in {Absent, PyNone, Str(<<>>), Str(S_label)} }

Mappings(c) ==
    CASE c = "Workflow" -> WorkflowMappings
      [] c = "Webhook" -> WebhookMappings
      [] c = "PullRequest" -> PullRequestMappings

InitArgs ==
    /\ pc = "call"
    /\ cls \in Classes
    /\ arguments \in Mappings(cls)
    /\ argv = arguments
    /\ payload_in = NoPayloadIn
    /\ debug = FALSE
    /\ dry_run = FALSE
    /\ masked_values = <<>>
    /\ workflow = Unset
    /\ webhook = Unset
    /\ pull_request = Unset
    /\ payload = NoPayload
    /\ posts = 0
    /\ response = NoResponse
    /\ output = <<>>
    /\ success = FALSE
    /\ exit_code = -1
    /\ result = Unset

(* cls.from_arguments(arguments) *)
from_arguments_call ==
    /\ pc = "call"
    /\ result' = from_arguments(cls, arguments)
    /\ arguments' = result'.rest
    /\ pc' = "called"
    /\ UNCHANGED <<debug, dry_run, payload_in, masked_values, workflow,
                   webhook, pull_request, payload, posts, response, output,
                   success, exit_code, cls, argv>>

NextArgs == from_arguments_call

SpecArgs == InitArgs /\ [][NextArgs]_vars

----------------------------------------------------------------------------
(* send_webhook in dry-run mode on its own: the rendering of a payload for *)
(* typed values of every length that matters to the Source Branch budget.  *)

MaxLoginLen == 6

MaxNameSteps == 4

NameStep == 8

MaxSourceLen == 40

NameLens == {1 + NameStep * k : k \in 0..MaxNameSteps}

(* a repository and a same-repository label with a longer owner *)
S_octocat_repo == <<"o", "c", "t", "o", "c", "a", "t", "/", "h", "w">>

S_octocat_label ==
    <<"o", "c", "t", "o", "c", "a", "t", ":",
      "f", "e", "a", "t", "u", "r", "e", "-", "x">>

Workflows ==
    { [workflow_name |-> Str(Rep("w", n)), run_id |-> IntV(12),
       run_number |-> IntV(3), status |-> EnumV(st),
       repository |-> Str(repo), actor |-> Str(<<"a", "l">>),
       ref |-> Str(<<"m">>), sha |-> Str(S_sha)] :
        n \in NameLens, st \in {<<"F", "A", "I", "L", "U", "R", "E">>},
        repo \in {S_repo, <<"/", "r">>, S_octocat_repo} }

SourceLabels ==
    ({ prefix \o Rep("b", m) \o suffix :
         prefix \in {<<>>, <<"o", ":">>, <<"x", ":">>, <<":">>},
         m \in 0..MaxSourceLen,
         suffix \in {<<>>, <<".", ".", ".">>} } \ {<<>>})
        \cup {S_octocat_label}

PullRequests ==
    { [pr_author_login |-> Str(Rep("a", a)), pr_number |-> IntV(5),
       pr_title |-> Str(<<"t">>), pr_source |-> Str(src)] :
        a \in 1..MaxLoginLen, src \in SourceLabels }

InitRender ==
    /\ pc = "send"
    /\ workflow \in {Outcome("value", "", <<>>, w, NoKwargs) : w \in Workflows}
    /\ pull_request \in
           {Outcome("value", "", <<>>, p, NoKwargs) : p \in PullRequests}
               \cup {Outcome("none", "", <<>>, NoKwargs, NoKwargs)}
    /\ webhook = Outcome("value", "", <<>>,
                         [webhook_id |-> IntV(7), webhook_token |-> Str(S_token)],
                         NoKwargs)
    /\ dry_run = TRUE
    /\ debug = FALSE
    /\ masked_values = <<S_token>>
    /\ arguments = NoKwargs
    /\ argv = NoKwargs
    /\ payload_in = NoPayloadIn
    /\ payload = NoPayload
    /\ posts = 0
    /\ response = NoResponse
    /\ output = <<>>
    /\ success = FALSE
    /\ exit_code = -1
    /\ cls = "none"
    /\ result = Unset

NextRender == send_webhook_render

SpecRender == InitRender /\ [][NextRender]_vars

----------------------------------------------------------------------------
(* Vocabulary of the properties.                                           *)

PrNames == <<"pr_author_login", "pr_number", "pr_title", "pr_source">>

IsText(args, f) == f \in DOMAIN args /\ args[f].t = "str"

IsEmptyText(args, f) == IsText(args, f) /\ args[f].s = <<>>

(* a field given as text that its declared type accepts *)
Populated(args, f, type) ==
    /\ IsText(args, f)
    /\ args[f].s # <<>>
    /\ type = "int" => IsIntLiteral(args[f].s)

(* the first of the four PR fields, in declaration order, that is empty *)
FirstEmptyPr(args) ==
    PrNames[CHOOSE i \in 1..4 :
                /\ IsEmptyText(args, PrNames[i])
                /\ \A j \in 1..(i - 1) : ~IsEmptyText(args, PrNames[j])]

(* at least one, not all, of the PR fields empty, the others populated *)
PartlyEmptyPr(args) ==
    /\ \E i \in 1..4 : IsEmptyText(args, PrNames[i])
    /\ \E i \in 1..4 : ~IsEmptyText(args, PrNames[i])
    /\ \A i \in 1..4 :
           \/ IsEmptyText(args, PrNames[i])
           \/ Populated(args, PrNames[i], PullRequestFields[i][2])

(* C1: PullRequest.from_arguments on a mapping in which at least one but   *)
(* not all of the four PR fields is the empty string, the others being     *)
(* populated, fails with MissingArgument for the first empty field in      *)
(* declaration order, and with nothing else.                               *)
C1_PartlyEmptyRaisesMissing ==
    (pc = "called" /\ cls = "PullRequest" /\ PartlyEmptyPr(argv)) =>
        /\ result.kind = "MissingArgument"
        /\ result.field = FirstEmptyPr(argv)

(* the endpoint has answered and send_webhook has returned *)
Answered == response.kind = "response" /\ pc \in {"returned", "done"}

Is2xx(status_code) == 200 <= status_code /\ status_code < 300

(* some emitted text is the '::error::' annotation with the status code *)
ErrorAnnotated(status_code) ==
    \E i \in 1..Len(output) :
        /\ StartsWith(output[i], <<"::error::">>)
        /\ Contains(output[i], <<"(status: ">> \o Digits(status_code))

(* some emitted text is the confirmation with the status code *)
DeliveryConfirmed(status_code) ==
    \E i \in 1..Len(output) :
        /\ StartsWith(output[i], <<"[status: ">> \o Digits(status_code))
        /\ Contains(output[i], <<" Successfully delivered webhook payload!">>)

(* C2: for every non-2xx status (1xx and 3xx as well as 4xx and 5xx)       *)
(* send_webhook returns false and prints the '::error::' annotation with   *)
(* the status code; it returns true with the confirmation only for 2xx.    *)
C2_Non2xxFails ==
    Answered =>
        IF Is2xx(response.status_code)
        THEN success /\ DeliveryConfirmed(response.status_code)
        ELSE ~success /\ ErrorAnnotated(response.status_code)

(* the Source Branch entry of a rendered pull-request payload *)
SourceBranch == payload.embeds[1].fields[3].value

RenderedPr == pc # "send" /\ pull_request.kind = "value" /\ payload # NoPayload

(* max(20, 60 - len(author login) - len("{name} #{number}")) *)
Budget ==
    LET w == workflow.kwargs
        left == 60 - Len(pull_request.kwargs.pr_author_login.s)
                   - (Len(w.workflow_name.s) + 2 + Len(Digits(w.run_number.n)))
    IN IF left > 20 THEN left ELSE 20

(* the source label without a leading "{owner}:" of the repository *)
StrippedLabel ==
    LET repo == workflow.kwargs.repository.s
        label == pull_request.kwargs.pr_source.s
        cut == CHOOSE i \in 1..(Len(repo) + 1) :
                   /\ i = Len(repo) + 1 \/ repo[i] = "/"
                   /\ \A j \in 1..(i - 1) : repo[j] # "/"
    IN IF /\ cut > 1
          /\ Len(label) >= cut
          /\ label[cut] = ":"
          /\ \A j \in 1..(cut - 1) : label[j] = repo[j]
       THEN SubSeq(label, cut + 1, Len(label))
       ELSE label

Ellipsis == <<".", ".", ".">>

Truncated ==
    /\ Len(StrippedLabel) > Budget
    /\ SourceBranch = SubSeq(StrippedLabel, 1, Budget - 3) \o Ellipsis

(* C3 as stated: the Source Branch value is never longer than the budget,  *)
(* and it ends with "..." if and only if the stripped label was longer     *)
(* than the budget and was cut to budget - 3 characters.                   *)
C3_EllipsisIffTruncated ==
    RenderedPr =>
        /\ Len(SourceBranch) <= Budget
        /\ EndsWith(SourceBranch, Ellipsis) <=> Truncated

(* C3, amended: the Source Branch value is never longer than the budget;   *)
(* a stripped label longer than the budget is rendered as its first        *)
(* budget - 3 characters followed by "...", and any other label is         *)
(* rendered unchanged (so it ends with "..." only if the label does).      *)
C3_TruncatedToBudget ==
    RenderedPr =>
        /\ Len(SourceBranch) <= Budget
        /\ IF Len(StrippedLabel) > Budget
           THEN SourceBranch = SubSeq(StrippedLabel, 1, Budget - 3) \o Ellipsis
           ELSE SourceBranch = StrippedLabel

(* a label cut to a budget above the floor of 20 *)
C3_Witness == RenderedPr /\ Truncated /\ Budget > 20

Failed(r) == r.kind \in {"MissingArgument", "InvalidArgument"}

Letters == {Lower[i] : i \in 1..26} \cup {Upper[i] : i \in 1..26}

(* a raw numeric argument that is empty or holds a letter *)
BadNumber(v) == v.s = <<>> \/ \E i \in 1..Len(v.s) : v.s[i] \in Letters

(* the PR fields are taken from the command line and some of them is given *)
PrFromCli ==
    /\ argv.pull_request_payload.s = <<>>
    /\ \E i \in 1..4 : argv[PrNames[i]].s # <<>>

(* C4: whenever the construction of Workflow, Webhook or PullRequest fails *)
(* with MissingArgument or InvalidArgument, and so whenever run_id,        *)
(* run_number, webhook_id or pr_number is empty or not a number, no HTTP   *)
(* request is ever issued: the run has ended with the failure.             *)
C4_FailureBeforeRequest ==
    /\ (Failed(workflow) \/ Failed(webhook) \/ Failed(pull_request)) =>
           posts = 0 /\ response.kind = "none" /\ pc = "done"
    /\ ( \/ BadNumber(argv.run_id)
         \/ BadNumber(argv.run_number)
         \/ BadNumber(argv.webhook_id)
         \/ (PrFromCli /\ BadNumber(argv.pr_number)) ) => posts = 0

(* a run that ended on a webhook id that is no number, all else valid *)
C4_Witness ==
    /\ pc = "done"
    /\ workflow.kind = "value"
    /\ webhook.kind = "InvalidArgument"
    /\ webhook.field = "webhook_id"
    /\ ~dry_run
    /\ posts = 0

(* C5: send_webhook in dry-run mode never issues an HTTP request and       *)
(* always returns true, with or without a pull request; the payload has    *)
(* been rendered when it returns.                                          *)
C5_DryRunSendsNothing ==
    dry_run =>
        /\ posts = 0
        /\ response.kind = "none"
        /\ pc # "post"
        /\ pc = "returned" =>
               /\ success
               /\ Len(payload.embeds) = 1
               /\ Len(payload.embeds[1].fields) = 3

(* send_webhook returned from a dry run for a pull request *)
C5_Witness ==
    dry_run /\ pc = "returned" /\ pull_request.kind = "value" /\ success

(* every construction succeeded *)
InputValid ==
    /\ workflow.kind = "value"
    /\ webhook.kind = "value"
    /\ pull_request.kind \in {"value", "none"}

(* C6: the process ends with exit status 0 if and only if the payload was  *)
(* delivered with a successful (2xx) HTTP status or the run was a dry run; *)
(* it ends non-zero on invalid input, on a non-successful status and when  *)
(* the request could not be sent.                                          *)
C6_ExitStatus ==
    pc = "done" =>
        /\ exit_code \in {0, 1}
        /\ exit_code = 0 <=>
               /\ InputValid
               /\ \/ dry_run
                  \/ response.kind = "response" /\ Is2xx(response.status_code)

(* the webhook token occurs in clear in a text *)
Leaks(text) ==
    argv.webhook_token.s # <<>> /\ Contains(text, argv.webhook_token.s)

(* C7: on every path no text the process emits holds the webhook token in  *)
(* clear, the constructed webhook URL included.                            *)
C7_TokenNeverEmitted == \A i \in 1..Len(output) : ~Leaks(output[i])

(* C10: a run makes at most one delivery attempt: whatever the endpoint    *)
(* answers, and on an error, no second POST follows the first.             *)
C10_SinglePost ==
    /\ posts <= 1
    /\ response.kind # "none" => posts = 1 /\ pc \in {"returned", "done"}

(* a run ended after the endpoint refused the one request it made *)
C10_Witness ==
    /\ pc = "done"
    /\ posts = 1
    /\ response.kind = "response"
    /\ ~success
    /\ exit_code = 1

(* the same letter, whatever its case *)
SameLetter(a, b) ==
    a = b \/ \E k \in 1..26 : {a, b} = {Lower[k], Upper[k]}

(* a status token that is Success, Failure or Cancelled, in any case *)
MatchesStatus(s) ==
    \E name \in WorkflowStatus :
        Len(s) = Len(name) /\ \A i \in 1..Len(s) : SameLetter(s[i], name[i])

(* text that converts to the declared type as a non-empty value *)
Acceptable(type, v) ==
    CASE type = "str" -> v.s # <<>>
      [] type = "int" -> IsIntLiteral(v.s)
      [] type = "enum" -> MatchesStatus(v.s)

(* the i-th declared field is absent from the mapping or does not convert *)
Offending(i) ==
    \/ TypeHints(cls)[i][1] \notin DOMAIN argv
    \/ ~Acceptable(TypeHints(cls)[i][2], argv[TypeHints(cls)[i][1]])

FirstOffending ==
    CHOOSE i \in 1..Len(TypeHints(cls)) :
        Offending(i) /\ \A j \in 1..(i - 1) : ~Offending(j)

(* C8: for a required structure (Workflow, Webhook) from_arguments returns *)
(* a typed value if and only if every declared field is in the mapping and *)
(* converts to its declared type as a non-empty value; otherwise it fails  *)
(* on the first offending field in declaration order: MissingArgument      *)
(* naming the field when it is absent, InvalidArgument naming the field    *)
(* and the raw value when the conversion fails.                            *)
C8_RequiredConstruction ==
    (pc = "called" /\ cls \in {"Workflow", "Webhook"}) =>
        IF \A i \in 1..Len(TypeHints(cls)) : ~Offending(i)
        THEN /\ result.kind = "value"
             /\ DOMAIN result.kwargs = FieldNames(cls)
             /\ \A i \in 1..Len(TypeHints(cls)) :
                    LET f == TypeHints(cls)[i][1]
                        type == TypeHints(cls)[i][2]
                    IN /\ result.kwargs[f].t = type
                       /\ type = "str" => result.kwargs[f].s = argv[f].s
                       /\ type = "enum" =>
                              /\ result.kwargs[f].s \in WorkflowStatus
                              /\ Len(result.kwargs[f].s) = Len(argv[f].s)
        ELSE LET f == TypeHints(cls)[FirstOffending][1]
             IN IF f \notin DOMAIN argv
                THEN result.kind = "MissingArgument" /\ result.field = f
                ELSE /\ result.kind = "InvalidArgument"
                     /\ result.field = f
                     /\ result.raw = argv[f].s

(* a Workflow refused for its status although a later field is absent *)
C8_Witness ==
    /\ pc = "called"
    /\ cls = "Workflow"
    /\ result.kind = "InvalidArgument"
    /\ result.field = "status"
    /\ "sha" \notin DOMAIN argv

(* the PR field is an empty string, or not supplied *)
BlankPr(f) == f \notin DOMAIN argv \/ IsEmptyText(argv, f)

(* C9: PullRequest construction is all-or-nothing: it returns None,        *)
(* without error, exactly when all four PR fields are empty strings or not *)
(* supplied; a context it returns has all four fields populated (non-empty *)
(* strings and an integer PR number); every other input is an error.       *)
C9_AllOrNothing ==
    (pc = "called" /\ cls = "PullRequest") =>
        /\ result.kind \in {"none", "value", "MissingArgument", "InvalidArgument"}
        /\ result.kind = "none" <=> \A i \in 1..4 : BlankPr(PrNames[i])
        /\ result.kind = "value" =>
               /\ DOMAIN result.kwargs = {PrNames[i] : i \in 1..4}
               /\ \A i \in 1..4 :
                      /\ PrNames[i] \in DOMAIN argv
                      /\ ~BlankPr(PrNames[i])
                      /\ argv[PrNames[i]].t # "none"
               /\ result.kwargs.pr_number.t = "int"
               /\ \A f \in {"pr_author_login", "pr_title", "pr_source"} :
                      result.kwargs[f].t = "str" /\ result.kwargs[f].s # <<>>

(* None for a mapping that leaves some PR fields out and has others empty *)
C9_Witness ==
    /\ pc = "called"
    /\ cls = "PullRequest"
    /\ result.kind = "none"
    /\ "pr_title" \notin DOMAIN argv
    /\ IsEmptyText(argv, "pr_source")

----------------------------------------------------------------------------
(* The kind of the rendered document.                                      *)

Rendered == pc # "send" /\ payload # NoPayload

Embed == payload.embeds[1]

EntryNames == [i \in 1..Len(Embed.fields) |-> Embed.fields[i].name]

(* https://github.com/{repository}/actions/runs/{run_id} *)
RunUrl ==
    <<"https://github.com/">> \o workflow.kwargs.repository.s
        \o <<"/actions/runs/">> \o Digits(workflow.kwargs.run_id.n)

(* https://github.com/{repository}/pull/{pr_number} *)
PullUrl ==
    <<"https://github.com/">> \o workflow.kwargs.repository.s
        \o <<"/pull/">> \o Digits(pull_request.kwargs.pr_number.n)

(* the member of WorkflowStatus the run was given, by its name *)
StatusIs(name) == workflow.kwargs.status.s = name

(* the verb and the color of each member of WorkflowStatus *)
StatusVerb ==
    CASE StatusIs(<<"S", "U", "C", "C", "E", "S", "S">>) -> "succeeded"
      [] StatusIs(<<"F", "A", "I", "L", "U", "R", "E">>) -> "failed"
      [] StatusIs(<<"C", "A", "N", "C", "E", "L", "L", "E", "D">>) ->
             "was cancelled"

StatusColor ==
    CASE StatusIs(<<"S", "U", "C", "C", "E", "S", "S">>) -> 38912
      [] StatusIs(<<"F", "A", "I", "L", "U", "R", "E">>) -> 16525609
      [] StatusIs(<<"C", "A", "N", "C", "E", "L", "L", "E", "D">>) -> 6702148

(* "GitHub Actions run [{run_id}]({run_url}) {status.verb}." *)
Description ==
    <<"GitHub Actions run ", "[">> \o Digits(workflow.kwargs.run_id.n)
        \o <<"]", "(">> \o RunUrl \o <<")", " ", StatusVerb, ".">>

(* C11: the pull-request context decides the kind of the rendered          *)
(* document: without it the document has exactly the three entries Actor,  *)
(* Workflow Run, Commit, in that order, and links to the run URL; with it  *)
(* the document has exactly the three entries PR Author, Workflow Run,     *)
(* Source Branch, in that order, and links to                              *)
(* https://github.com/{repository}/pull/{pr_number}; in both kinds the     *)
(* description is "GitHub Actions run [{run_id}]({run_url}) {verb}." and   *)
(* the color is the color of the status.                                   *)
C11_DocumentKind ==
    Rendered =>
        /\ Len(payload.embeds) = 1
        /\ IF pull_request.kind = "none"
           THEN /\ EntryNames = <<"Actor", "Workflow Run", "Commit">>
                /\ Embed.url = RunUrl
           ELSE /\ EntryNames = <<"PR Author", "Workflow Run", "Source Branch">>
                /\ Embed.url = PullUrl
        /\ Embed.description = Description
        /\ Embed.color = StatusColor

(* a pull-request document rendered for a cancelled run *)
C11_Witness ==
    /\ Rendered
    /\ pull_request.kind = "value"
    /\ EntryNames[3] = "Source Branch"
    /\ StatusVerb = "was cancelled"

----------------------------------------------------------------------------
(* The owner prefix of the source label.                                   *)

Label == pull_request.kwargs.pr_source.s

(* the part of the repository before its first "/" (all of it without one) *)
RepoOwner ==
    LET repo == workflow.kwargs.repository.s
        slashes == {i \in 1..Len(repo) : repo[i] = "/"}
    IN IF slashes = {} THEN repo
       ELSE SubSeq(repo, 1, (CHOOSE i \in slashes : \A j \in slashes : i <= j) - 1)

OwnerPrefix == RepoOwner \o <<":">>

(* the label of a branch of the repository itself: "{owner}:..." with the  *)
(* owner of an "owner/name" repository                                     *)
SameOwnerLabel == RepoOwner # <<>> /\ StartsWith(Label, OwnerPrefix)

WithoutOwnerPrefix == SubSeq(Label, Len(OwnerPrefix) + 1, Len(Label))

(* a text cut to the budget: its first budget - 3 characters and "..."     *)
Shortened(s) ==
    IF Len(s) > Budget THEN SubSeq(s, 1, Budget - 3) \o Ellipsis ELSE s

(* C12: when the source label starts with "{repository_owner}:", the owner *)
(* being the part of the "owner/name" repository before the "/", the       *)
(* Source Branch value is computed from the label without that prefix      *)
(* ("octocat:feature-x" with owner "octocat" renders as "feature-x"); a    *)
(* label whose prefix names another owner keeps its prefix; and the        *)
(* truncation to the budget is applied to the label after the stripping.   *)
C12_OwnerPrefixStripped ==
    RenderedPr =>
        /\ IF SameOwnerLabel
           THEN SourceBranch = Shortened(WithoutOwnerPrefix)
           ELSE SourceBranch = Shortened(Label)
        /\ (RepoOwner = <<"o", "c", "t", "o", "c", "a", "t">>
              /\ Label = S_octocat_label)
               => SourceBranch = <<"f", "e", "a", "t", "u", "r", "e", "-", "x">>
        /\ (~SameOwnerLabel /\ Len(Label) <= Budget) => SourceBranch = Label

(* a same-owner label longer than the budget that fits once stripped and   *)
(* is rendered whole, without its prefix and without an ellipsis           *)
C12_Witness ==
    /\ RenderedPr
    /\ SameOwnerLabel
    /\ Len(Label) > Budget
    /\ Len(WithoutOwnerPrefix) <= Budget
    /\ SourceBranch = WithoutOwnerPrefix

====
